---- MODULE Spec2Model ----
(***************************************************************************)
(* A model of pve_exporter/collector.py: the five collectors of a Proxmox  *)
(* VE scrape (StatusCollector, ClusterResourcesCollector,                  *)
(* ClusterNodeCollector, ClusterInfoCollector, VersionCollector), the      *)
(* label helpers of LabelingCollectorBase and collect_pve.                 *)
(*                                                                         *)
(* Python values are tagged records (None, S(..), N(..), B(..), L(..)), a  *)
(* dict is a function whose domain is its key set, and a call either       *)
(* returns (Ok) or raises (Raise, with the exception Python builds).       *)
(* Python semantics are those of Python 3.                                 *)
(***************************************************************************)
EXTENDS Integers, Sequences, FiniteSets, TLC

(***************************************************************************)
(* Python values and calls                                                 *)
(***************************************************************************)
None == [none |-> TRUE]
S(s) == [str |-> s]
N(n) == [int |-> n]
B(b) == [bool |-> b]
L(q) == [list |-> q]

IsNone(v) == "none" \in DOMAIN v
IsStr(v) == "str" \in DOMAIN v
IsInt(v) == "int" \in DOMAIN v
IsBool(v) == "bool" \in DOMAIN v

\* bool(v), as `or` and `if` evaluate it
Truthy(v) ==
  CASE IsNone(v) -> FALSE
    [] IsStr(v) -> v.str # ""
    [] IsInt(v) -> v.int # 0
    [] IsBool(v) -> v.bool

\* a or b: the first operand when it is truthy, else the second
PyOr(a, b) == IF Truthy(a) THEN a ELSE b

Ok(v) == [ok |-> TRUE, val |-> v]
Raise(e) == [ok |-> FALSE, exc |-> e]

\* d.get(key)
Get(d, key) == IF key \in DOMAIN d THEN d[key] ELSE None

\* del d[key], on a dict that has the key
DelKey(d, key) == [k \in DOMAIN d \ {key} |-> d[k]]

\* d[key] = v
SetKey(d, key, v) == [k \in DOMAIN d \cup {key} |-> IF k = key THEN v ELSE d[k]]

\* str(v)
py_str(v) ==
  CASE IsNone(v) -> S("None")
    [] IsStr(v) -> v
    [] IsInt(v) -> S(ToString(v.int))
    [] IsBool(v) -> S(IF v.bool THEN "True" ELSE "False")

\* '{:s}'.format(v): only a str has the format code 's'
FormatS(v) ==
  CASE IsStr(v) -> Ok(v.str)
    [] IsNone(v) ->
         Raise("TypeError: unsupported format string passed to NoneType.__format__")
    [] IsInt(v) -> Raise("ValueError: Unknown format code 's' for object of type 'int'")
    [] IsBool(v) -> Raise("ValueError: Unknown format code 's' for object of type 'bool'")

SeqToSet(q) == {q[i] : i \in DOMAIN q}

\* Every key a record of the model can carry, in lexicographic order: the
\* order sorted() gives. The same order stands for the order in which a dict
\* yields its keys (Python: insertion order); the collectors read that order
\* once per family, for the label names, and fetch every value by key.
FieldOrder ==
  << "cpu", "disk", "diskread", "diskwrite", "id", "ip", "level", "local",
     "maxcpu", "maxdisk", "maxmem", "mem", "name", "netin", "netout", "node",
     "nodeid", "nodes", "online", "quorate", "release", "repoid", "status",
     "storage", "template", "type", "uptime", "version" >>

InKeys(keys, k) == k \in keys

\* sorted(keys)
Sorted(keys) == SelectSeq(FieldOrder, LAMBDA k : InKeys(keys, k))

\* d.keys(), list(d)
Keys(d) == Sorted(DOMAIN d)

(***************************************************************************)
(* LabelingCollectorBase                                                   *)
(***************************************************************************)
KNOWN_LABEL_KEYS_unsorted == << "type", "id", "name", "node", "template" >>

KNOWN_LABEL_KEYS == << "id", "name", "node", "template", "type" >>

downcast_label_value(val) ==
  CASE IsNone(val) -> S("")
    [] IsBool(val) -> S(IF val.bool THEN "1" ELSE "0")
    [] OTHER -> py_str(val)

\* line 59: labels = {key: resource.get(key) for key in label_keys}
CopyLabels(resource, keys) == [key \in SeqToSet(keys) |-> Get(resource, key)]

\* lines 63-67: the type is looked up in labels, not in resource
NameOverride(labels, resource) ==
  IF "name" \in DOMAIN labels
  THEN IF Get(labels, "type") = S("storage")
       THEN [labels EXCEPT !["name"] = Get(resource, "storage")]
       ELSE IF Get(labels, "type") = S("node")
            THEN [labels EXCEPT !["name"] = Get(resource, "node")]
            ELSE labels
  ELSE labels

\* lines 70-72
IdOverride(labels, resource) ==
  IF "id" \in DOMAIN labels /\ Get(labels, "type") = S("cluster")
  THEN LET f == FormatS(Get(resource, "name"))
       IN IF f.ok THEN Ok([labels EXCEPT !["id"] = S("cluster/" \o f.val)]) ELSE f
  ELSE Ok(labels)

get_known_labels(resource, label_keys) ==
  LET keys == IF IsNone(label_keys) THEN KNOWN_LABEL_KEYS ELSE label_keys.list
  IN IdOverride(NameOverride(CopyLabels(resource, keys), resource), resource)

get_label_values(labels, label_keys) ==
  LET keys == IF IsNone(label_keys) THEN Sorted(DOMAIN labels) ELSE label_keys.list
  IN [p \in 1..Len(keys) |-> downcast_label_value(Get(labels, keys[p]))]

(***************************************************************************)
(* StatusCollector.is_entry_up                                             *)
(***************************************************************************)
SUPPORTED_UP_RES_TYPES == { S("qemu"), S("lxc"), S("node"), S("storage"), S("vm"), S("cluster") }

UpStatuses == { S("available"), S("online"), S("running") }

is_entry_up(entry) ==
  IF Get(entry, "type") \notin SUPPORTED_UP_RES_TYPES
  THEN LET f == FormatS(Get(entry, "type"))
       IN IF f.ok
          THEN Raise("ValueError: Got unexpected status entry type " \o f.val)
          ELSE f
  ELSE Ok(PyOr(Get(entry, "quorate"),
               PyOr(Get(entry, "online"), B(Get(entry, "status") \in UpStatuses))))

(***************************************************************************)
(* Metric families (prometheus_client's GaugeMetricFamily)                 *)
(***************************************************************************)
GaugeMetricFamily(name, labels) == [name |-> name, labelnames |-> labels, samples |-> << >>]

add_metric(family, label_values, value) ==
  [family EXCEPT !.samples = Append(@, [labels |-> label_values, value |-> value])]

(***************************************************************************)
(* StatusCollector.collect, one entry of the chained stream (lines 129-139)*)
(* st is [ids, family]: processed_ids and status_metrics.                  *)
(***************************************************************************)
StatusEntry_no_dedup(st, entry) ==
  LET lab == get_known_labels(entry, None)
  IN IF ~lab.ok THEN lab
     ELSE LET up == is_entry_up(entry)
          IN IF ~up.ok THEN up
             ELSE Ok([ids |-> st.ids \cup {lab.val["id"]},
                      family |-> add_metric(st.family,
                                   get_label_values(lab.val, L(KNOWN_LABEL_KEYS)), up.val)])

StatusEntry_validate_first(st, entry) ==
  LET lab == get_known_labels(entry, None)
      up == is_entry_up(entry)
  IN IF ~lab.ok THEN lab
     ELSE IF ~up.ok THEN up
     ELSE IF lab.val["id"] \in st.ids THEN Ok(st)
     ELSE Ok([ids |-> st.ids \cup {lab.val["id"]},
              family |-> add_metric(st.family,
                           get_label_values(lab.val, L(KNOWN_LABEL_KEYS)), up.val)])

StatusEntry(st, entry) ==
  LET lab == get_known_labels(entry, None)
  IN IF ~lab.ok THEN lab
     ELSE IF lab.val["id"] \in st.ids THEN Ok(st)
     ELSE LET up == is_entry_up(entry)
          IN IF ~up.ok THEN up
             ELSE Ok([ids |-> st.ids \cup {lab.val["id"]},
                      family |-> add_metric(st.family,
                                   get_label_values(lab.val, L(KNOWN_LABEL_KEYS)), up.val)])

(***************************************************************************)
(* ClusterResourcesCollector.collect                                       *)
(***************************************************************************)
\* the keys of `metrics` (lines 259-304), in the dict's order
MetricKeys ==
  << "maxdisk", "disk", "maxmem", "mem", "netout", "netin", "diskwrite",
     "diskread", "cpu", "maxcpu", "uptime" >>

MetricName(key) ==
  CASE key = "maxdisk" -> "pve_disk_size_bytes"
    [] key = "disk" -> "pve_disk_usage_bytes"
    [] key = "maxmem" -> "pve_memory_size_bytes"
    [] key = "mem" -> "pve_memory_usage_bytes"
    [] key = "netout" -> "pve_network_transmit_bytes"
    [] key = "netin" -> "pve_network_receive_bytes"
    [] key = "diskwrite" -> "pve_disk_write_bytes"
    [] key = "diskread" -> "pve_disk_read_bytes"
    [] key = "cpu" -> "pve_cpu_usage_ratio"
    [] key = "maxcpu" -> "pve_cpu_usage_limit"
    [] key = "uptime" -> "pve_uptime_seconds"

\* the keys of `info_metrics` (lines 306-315), in the dict's order
InfoKeys == << "guest", "storage" >>

InfoName(key) == IF key = "guest" THEN "pve_guest_info" ELSE "pve_storage_info"

\* info_lookup (lines 317-321): resource type -> key of info_metrics
InfoLookup(restype) ==
  CASE restype \in {S("lxc"), S("qemu")} -> "guest"
    [] restype = S("storage") -> "storage"
    [] OTHER -> ""

\* lines 258-315: the families before the first record
NewResourceFamilies ==
  [metrics |-> [key \in SeqToSet(MetricKeys) |->
                  GaugeMetricFamily(MetricName(key), KNOWN_LABEL_KEYS)],
   info_metrics |-> [key \in SeqToSet(InfoKeys) |->
                  GaugeMetricFamily(InfoName(key), KNOWN_LABEL_KEYS)]]

\* lines 331-333 with a sample for every key of metrics, 0 where the record
\* has no such field
RouteFields_zero_fill(metrics, resource, label_values) ==
  [key \in DOMAIN metrics |->
     add_metric(metrics[key], label_values,
                IF key \in DOMAIN resource THEN resource[key] ELSE N(0))]

\* lines 331-333: every key of the record that is a key of metrics
RouteFields(metrics, resource, label_values) ==
  [key \in DOMAIN metrics |->
     IF key \in DOMAIN resource
     THEN add_metric(metrics[key], label_values, resource[key])
     ELSE metrics[key]]

\* lines 324-333, one record; fams is [metrics, info_metrics]
ResourceEntry(fams, resource) ==
  LET restype == Get(resource, "type")
      lab == get_known_labels(resource, None)
  IN IF ~lab.ok THEN lab
     ELSE LET label_values == get_label_values(lab.val, None)
              info == InfoLookup(restype)
          IN Ok([metrics |-> RouteFields(fams.metrics, resource, label_values),
                 info_metrics |->
                   IF info # ""
                   THEN [fams.info_metrics EXCEPT
                           ![info] = add_metric(@, label_values, N(1))]
                   ELSE fams.info_metrics])

\* line 335: itertools.chain(metrics.values(), info_metrics.values())
ResourceFamilies(fams) ==
  [p \in 1..Len(MetricKeys) |-> fams.metrics[MetricKeys[p]]]
    \o [p \in 1..Len(InfoKeys) |-> fams.info_metrics[InfoKeys[p]]]

(***************************************************************************)
(* ClusterNodeCollector, ClusterInfoCollector, VersionCollector            *)
(***************************************************************************)
MinOf(ns) == CHOOSE m \in ns : \A k \in ns : m <= k

TypeIs(entry, kind) == entry["type"] = S(kind)

\* lines 186 and 221: [entry for entry in status if entry['type'] == kind]
FilterByType(status, kind) ==
  IF \E p \in 1..Len(status) : "type" \notin DOMAIN status[p]
  THEN Raise("KeyError: 'type'")
  ELSE Ok(SelectSeq(status, LAMBDA entry : TypeIs(entry, kind)))

\* lines 195-203 and 234-242: the label names are the keys of the first
\* record, and every record is read at those keys
SchemaFamily(name, records) ==
  LET labels == Keys(records[1])
      Missing(n) == {p \in 1..Len(labels) : labels[p] \notin DOMAIN records[n]}
      bad == {n \in 1..Len(records) : Missing(n) # {}}
  IN IF bad # {}
     THEN Raise("KeyError: '" \o labels[MinOf(Missing(MinOf(bad)))] \o "'")
     ELSE Ok(<< [name |-> name,
                 labelnames |-> labels,
                 samples |-> [n \in 1..Len(records) |->
                    [labels |-> [p \in 1..Len(labels) |-> py_str(records[n][labels[p]])],
                     value |-> N(1)]]] >>)

\* lines 190-192 without the second del
StripNode_keep_online(node) == DelKey(node, "type")

\* lines 190-192
StripNode(node) == DelKey(DelKey(node, "type"), "online")

\* ClusterNodeCollector.collect on the cluster-status result: the families
\* it yields, or the exception it raises
ClusterNodeCollect(status) ==
  LET nodes == FilterByType(status, "node")
  IN IF ~nodes.ok THEN nodes
     ELSE IF nodes.val = << >> THEN Ok(<< >>)
     ELSE IF \E n \in 1..Len(nodes.val) : "online" \notin DOMAIN nodes.val[n]
     THEN Raise("KeyError: 'online'")
     ELSE SchemaFamily("pve_node_info",
                       [n \in 1..Len(nodes.val) |-> StripNode(nodes.val[n])])

\* lines 225-231 for one cluster record that has a str name
RenameCluster(cluster) ==
  DelKey(SetKey(DelKey(cluster, "type"), "id", S("cluster/" \o cluster["name"].str)), "name")

\* ClusterInfoCollector.collect on the cluster-status result
ClusterInfoCollect(status) ==
  LET clusters == FilterByType(status, "cluster")
      Bad(c) == "name" \notin DOMAIN c \/ ~FormatS(c["name"]).ok
  IN IF ~clusters.ok THEN clusters
     ELSE IF clusters.val = << >> THEN Ok(<< >>)
     ELSE IF \E n \in 1..Len(clusters.val) : Bad(clusters.val[n])
     THEN LET c == clusters.val[MinOf({n \in 1..Len(clusters.val) : Bad(clusters.val[n])})]
          IN IF "name" \notin DOMAIN c THEN Raise("KeyError: 'name'") ELSE FormatS(c["name"])
     ELSE SchemaFamily("pve_cluster_info",
                       [n \in 1..Len(clusters.val) |-> RenameCluster(clusters.val[n])])

LABEL_WHITELIST == {"release", "repoid", "version"}

\* VersionCollector.collect on the version result
VersionCollect(version_items) ==
  LET version == [key \in DOMAIN version_items \cap LABEL_WHITELIST |-> version_items[key]]
      labels == Keys(version)
  IN IF DOMAIN version = {}
     THEN Raise("ValueError: not enough values to unpack (expected 2, got 0)")
     ELSE Ok(<< [name |-> "pve_version_info",
                 labelnames |-> labels,
                 samples |-> << [labels |-> [p \in 1..Len(labels) |-> version[labels[p]]],
                                 value |-> N(1)] >>] >>)

(***************************************************************************)
(* The state of the program                                                *)
(*                                                                         *)
(* api: what the three queries of the Proxmox API return (the cluster      *)
(*   does not change while the scrapes run).                               *)
(* Every other variable is a function of the call of collect_pve it        *)
(* belongs to: pc is the call's position, entries and idx the list a       *)
(* collector iterates and the position in it, processed_ids,               *)
(* status_metrics and resource_metrics the locals of the collector that    *)
(* runs, output the families generate_latest has collected, returned what  *)
(* the caller of collect_pve has received.                                 *)
(* call: the last direct call of is_entry_up or get_known_labels.          *)
(***************************************************************************)
VARIABLES api, pc, entries, idx, processed_ids, status_metrics, resource_metrics,
          output, returned, call

vars == << api, pc, entries, idx, processed_ids, status_metrics, resource_metrics,
           output, returned, call >>

Calls == DOMAIN pc

NoFamily == GaugeMetricFamily("", << >>)
NoFamilies == [metrics |-> << >>, info_metrics |-> << >>]
NoReturn == [pending |-> TRUE]
NoCall == [op |-> "none"]

\* a set every call of StatusCollector.collect would share
IdsOf_shared(s) == MinOf(Calls)

\* line 124: processed_ids is a local of the call of StatusCollector.collect
IdsOf(s) == s

\* the exception leaves collect_pve: the caller receives it and nothing else
Fail(s, exc) ==
  /\ pc' = [pc EXCEPT ![s] = "failed"]
  /\ returned' = [returned EXCEPT ![s] = Raise(exc)]
  /\ entries' = [entries EXCEPT ![s] = << >>]
  /\ idx' = [idx EXCEPT ![s] = 0]
  /\ status_metrics' = [status_metrics EXCEPT ![s] = NoFamily]
  /\ resource_metrics' = [resource_metrics EXCEPT ![s] = NoFamilies]
  /\ output' = [output EXCEPT ![s] = << >>]
  /\ UNCHANGED << api, processed_ids, call >>

\* the places where a query of the API is issued
QueryPoints == {"start", "status_begin", "resources_begin", "node", "info", "version"}

\* a query (or the login of ProxmoxAPI) raises
ApiFail(s) ==
  /\ pc[s] \in QueryPoints
  /\ Fail(s, "ApiError")

\* collect_pve, lines 340-347: the client and the registry
Start(s) ==
  /\ pc[s] = "start"
  /\ pc' = [pc EXCEPT ![s] = "status_begin"]
  /\ UNCHANGED << api, entries, idx, processed_ids, status_metrics, resource_metrics,
                  output, returned, call >>

\* StatusCollector.collect, lines 117-127
StatusBegin(s) ==
  /\ pc[s] = "status_begin"
  /\ status_metrics' = [status_metrics EXCEPT ![s] = GaugeMetricFamily("pve_up", KNOWN_LABEL_KEYS)]
  /\ processed_ids' = [processed_ids EXCEPT ![IdsOf(s)] = {}]
  /\ entries' = [entries EXCEPT ![s] = api.resources \o api.status]
  /\ idx' = [idx EXCEPT ![s] = 1]
  /\ pc' = [pc EXCEPT ![s] = "status_loop"]
  /\ UNCHANGED << api, resource_metrics, output, returned, call >>

\* StatusCollector.collect, lines 126-139: one entry
StatusStep(s) ==
  /\ pc[s] = "status_loop"
  /\ idx[s] <= Len(entries[s])
  /\ LET r == StatusEntry([ids |-> processed_ids[IdsOf(s)], family |-> status_metrics[s]],
                          entries[s][idx[s]])
     IN IF r.ok
        THEN /\ processed_ids' = [processed_ids EXCEPT ![IdsOf(s)] = r.val.ids]
             /\ status_metrics' = [status_metrics EXCEPT ![s] = r.val.family]
             /\ idx' = [idx EXCEPT ![s] = @ + 1]
             /\ UNCHANGED << api, pc, entries, resource_metrics, output, returned, call >>
        ELSE Fail(s, r.exc)

\* StatusCollector.collect, line 141
StatusEnd(s) ==
  /\ pc[s] = "status_loop"
  /\ idx[s] > Len(entries[s])
  /\ output' = [output EXCEPT ![s] = Append(@, status_metrics[s])]
  /\ pc' = [pc EXCEPT ![s] = "resources_begin"]
  /\ UNCHANGED << api, entries, idx, processed_ids, status_metrics, resource_metrics,
                  returned, call >>

\* ClusterResourcesCollector.collect, lines 258-323
ResourcesBegin(s) ==
  /\ pc[s] = "resources_begin"
  /\ resource_metrics' = [resource_metrics EXCEPT ![s] = NewResourceFamilies]
  /\ entries' = [entries EXCEPT ![s] = api.resources]
  /\ idx' = [idx EXCEPT ![s] = 1]
  /\ pc' = [pc EXCEPT ![s] = "resources_loop"]
  /\ UNCHANGED << api, processed_ids, status_metrics, output, returned, call >>

\* ClusterResourcesCollector.collect, lines 323-333: one record
ResourcesStep(s) ==
  /\ pc[s] = "resources_loop"
  /\ idx[s] <= Len(entries[s])
  /\ LET r == ResourceEntry(resource_metrics[s], entries[s][idx[s]])
     IN IF r.ok
        THEN /\ resource_metrics' = [resource_metrics EXCEPT ![s] = r.val]
             /\ idx' = [idx EXCEPT ![s] = @ + 1]
             /\ UNCHANGED << api, pc, entries, processed_ids, status_metrics, output,
                             returned, call >>
        ELSE Fail(s, r.exc)

\* ClusterResourcesCollector.collect, line 335
ResourcesEnd(s) ==
  /\ pc[s] = "resources_loop"
  /\ idx[s] > Len(entries[s])
  /\ output' = [output EXCEPT ![s] = @ \o ResourceFamilies(resource_metrics[s])]
  /\ pc' = [pc EXCEPT ![s] = "node"]
  /\ UNCHANGED << api, entries, idx, processed_ids, status_metrics, resource_metrics,
                  returned, call >>

\* ClusterNodeCollector.collect
NodeCollect(s) ==
  /\ pc[s] = "node"
  /\ LET r == ClusterNodeCollect(api.status)
     IN IF r.ok
        THEN /\ output' = [output EXCEPT ![s] = @ \o r.val]
             /\ pc' = [pc EXCEPT ![s] = "info"]
             /\ UNCHANGED << api, entries, idx, processed_ids, status_metrics,
                             resource_metrics, returned, call >>
        ELSE Fail(s, r.exc)

\* ClusterInfoCollector.collect
InfoCollect(s) ==
  /\ pc[s] = "info"
  /\ LET r == ClusterInfoCollect(api.status)
     IN IF r.ok
        THEN /\ output' = [output EXCEPT ![s] = @ \o r.val]
             /\ pc' = [pc EXCEPT ![s] = "version"]
             /\ UNCHANGED << api, entries, idx, processed_ids, status_metrics,
                             resource_metrics, returned, call >>
        ELSE Fail(s, r.exc)

\* what collect_pve hands to its caller once the last collector has run; here
\* the families collected so far are handed over with the exception
Deliver_partial(s, r) ==
  IF r.ok
  THEN /\ returned' = [returned EXCEPT ![s] = Ok(output[s] \o r.val)]
       /\ pc' = [pc EXCEPT ![s] = "done"]
       /\ entries' = [entries EXCEPT ![s] = << >>]
       /\ idx' = [idx EXCEPT ![s] = 0]
       /\ status_metrics' = [status_metrics EXCEPT ![s] = NoFamily]
       /\ resource_metrics' = [resource_metrics EXCEPT ![s] = NoFamilies]
       /\ output' = [output EXCEPT ![s] = << >>]
       /\ UNCHANGED << api, processed_ids, call >>
  ELSE /\ returned' = [returned EXCEPT ![s] = Ok(output[s])]
       /\ pc' = [pc EXCEPT ![s] = "failed"]
       /\ entries' = [entries EXCEPT ![s] = << >>]
       /\ idx' = [idx EXCEPT ![s] = 0]
       /\ status_metrics' = [status_metrics EXCEPT ![s] = NoFamily]
       /\ resource_metrics' = [resource_metrics EXCEPT ![s] = NoFamilies]
       /\ output' = [output EXCEPT ![s] = << >>]
       /\ UNCHANGED << api, processed_ids, call >>

\* line 348: generate_latest returns the families of all five collectors, or
\* the exception of the last one leaves collect_pve
Deliver(s, r) ==
  IF r.ok
  THEN /\ returned' = [returned EXCEPT ![s] = Ok(output[s] \o r.val)]
       /\ pc' = [pc EXCEPT ![s] = "done"]
       /\ entries' = [entries EXCEPT ![s] = << >>]
       /\ idx' = [idx EXCEPT ![s] = 0]
       /\ status_metrics' = [status_metrics EXCEPT ![s] = NoFamily]
       /\ resource_metrics' = [resource_metrics EXCEPT ![s] = NoFamilies]
       /\ output' = [output EXCEPT ![s] = << >>]
       /\ UNCHANGED << api, processed_ids, call >>
  ELSE Fail(s, r.exc)

\* VersionCollector.collect, then the return of collect_pve
VersionCollectAndReturn(s) ==
  /\ pc[s] = "version"
  /\ Deliver(s, VersionCollect(api.version))

(***************************************************************************)
(* Direct calls of the two public helpers                                  *)
(***************************************************************************)
Absent == [absent |-> TRUE]

\* the dict that has the keys of choice whose value is not Absent
MkRecord(choice) == [k \in {k \in DOMAIN choice : choice[k] # Absent} |-> choice[k]]

TypeChoices ==
  { Absent, S("qemu"), S("lxc"), S("node"), S("storage"), S("vm"), S("cluster"), S("pool") }

UpEntries ==
  { MkRecord(c) : c \in [type : TypeChoices,
                         quorate : {Absent, N(0), N(1)},
                         online : {Absent, N(0), N(1)},
                         status : {Absent, S("running"), S("stopped"), S("available"),
                                   S("online")}] }

LabelResources ==
  { MkRecord(c) : c \in [type : {Absent, S("qemu"), S("storage"), S("node"),
                                 S("cluster"), S("pool")},
                         id : {Absent, S("qemu/100")},
                         name : {Absent, S("pvec")},
                         node : {Absent, S("pve1")},
                         storage : {Absent, S("local-lvm")}] }

LabelKeyLists ==
  { None, L(KNOWN_LABEL_KEYS), L(<< "name" >>), L(<< "id" >>), L(<< "id", "name" >>),
    L(<< "name", "type" >>), L(<< "type", "id" >>), L(<< "node", "template" >>) }

CallIsEntryUp ==
  /\ \E entry \in UpEntries :
       call' = [op |-> "is_entry_up", entry |-> entry, ret |-> is_entry_up(entry)]
  /\ UNCHANGED << api, pc, entries, idx, processed_ids, status_metrics, resource_metrics,
                  output, returned >>

CallGetKnownLabels ==
  /\ \E resource \in LabelResources, label_keys \in LabelKeyLists :
       call' = [op |-> "get_known_labels", resource |-> resource,
                label_keys |-> label_keys,
                ret |-> get_known_labels(resource, label_keys)]
  /\ UNCHANGED << api, pc, entries, idx, processed_ids, status_metrics, resource_metrics,
                  output, returned >>

(***************************************************************************)
(* API results                                                             *)
(***************************************************************************)
\* the longest pair of lists the cluster-resources and cluster-status
\* queries return, counted together
MaxLen == 3

R_node ==
  [type |-> S("node"), id |-> S("node/pve1"), node |-> S("pve1"), status |-> S("online"),
   maxcpu |-> N(4), maxmem |-> N(8), mem |-> N(4), uptime |-> N(9)]

R_qemu ==
  [type |-> S("qemu"), id |-> S("qemu/100"), name |-> S("vm100"), node |-> S("pve1"),
   status |-> S("running"), template |-> B(FALSE), maxmem |-> N(2), mem |-> N(1),
   netin |-> N(5)]

\* the same guest as R_qemu, stopped, and without mem and netin
R_qemu_stopped ==
  [type |-> S("qemu"), id |-> S("qemu/100"), name |-> S("vm100"), node |-> S("pve1"),
   status |-> S("stopped"), template |-> N(0), maxmem |-> N(2)]

R_storage ==
  [type |-> S("storage"), id |-> S("storage/pve1/local"), storage |-> S("local"),
   node |-> S("pve1"), status |-> S("available"), maxdisk |-> N(7), disk |-> N(3)]

\* a record of a kind is_entry_up does not support, with the id of R_qemu
R_pool == [type |-> S("pool"), id |-> S("qemu/100")]

S_node1 ==
  [type |-> S("node"), id |-> S("node/pve1"), name |-> S("pve1"), ip |-> S("10.0.0.1"),
   level |-> S(""), local |-> N(1), nodeid |-> N(1), online |-> N(1)]

S_node2 ==
  [type |-> S("node"), id |-> S("node/pve2"), name |-> S("pve2"), ip |-> S("10.0.0.2"),
   level |-> S(""), local |-> N(0), nodeid |-> N(2), online |-> N(0)]

S_cluster ==
  [type |-> S("cluster"), id |-> S("cluster"), name |-> S("pvec"), nodes |-> N(2),
   quorate |-> N(1), version |-> N(3)]

\* a node record without `online`
S_node_no_online ==
  [type |-> S("node"), id |-> S("node/pve3"), name |-> S("pve3"), ip |-> S("10.0.0.3"),
   level |-> S(""), local |-> N(0), nodeid |-> N(3)]

\* a cluster record without `name`
S_cluster_no_name ==
  [type |-> S("cluster"), id |-> S("cluster"), nodes |-> N(2), quorate |-> N(0),
   version |-> N(3)]

V_full == [release |-> S("15"), repoid |-> S("7599e35a"), version |-> S("4.4")]
V_partial == [version |-> S("4.4")]
V_none == [k \in {} |-> None]

\* the API results whose two lists are drawn from the given records and
\* hold no more than MaxLen records together
ApiResults(resources, status, versions) ==
  UNION { { [resources |-> r, status |-> st, version |-> v] :
              r \in [1..len[1] -> resources], st \in [1..len[2] -> status],
              v \in versions } :
          len \in {l \in (0..MaxLen) \X (0..MaxLen) : l[1] + l[2] <= MaxLen} }

InitWith(callers, results) ==
  /\ api \in results
  /\ pc = [s \in callers |-> "start"]
  /\ entries = [s \in callers |-> << >>]
  /\ idx = [s \in callers |-> 0]
  /\ processed_ids = [s \in callers |-> {}]
  /\ status_metrics = [s \in callers |-> NoFamily]
  /\ resource_metrics = [s \in callers |-> NoFamilies]
  /\ output = [s \in callers |-> << >>]
  /\ returned = [s \in callers |-> NoReturn]
  /\ call = NoCall

Next ==
  \/ \E s \in Calls : ApiFail(s)
  \/ \E s \in Calls : Start(s)
  \/ \E s \in Calls : StatusBegin(s)
  \/ \E s \in Calls : StatusStep(s)
  \/ \E s \in Calls : StatusEnd(s)
  \/ \E s \in Calls : ResourcesBegin(s)
  \/ \E s \in Calls : ResourcesStep(s)
  \/ \E s \in Calls : ResourcesEnd(s)
  \/ \E s \in Calls : NodeCollect(s)
  \/ \E s \in Calls : InfoCollect(s)
  \/ \E s \in Calls : VersionCollectAndReturn(s)

\* one scrape
Init ==
  InitWith({1}, ApiResults({R_node, R_qemu, R_qemu_stopped, R_storage, R_pool},
                           {S_node1, S_node2, S_cluster, S_node_no_online,
                            S_cluster_no_name},
                           {V_full, V_partial, V_none}))

Spec == Init /\ [][Next]_vars

\* two scrapes of the same cluster, their steps interleaved
InitConcurrent ==
  InitWith({1, 2}, ApiResults({R_qemu, R_qemu_stopped, R_pool}, {S_node1}, {V_full}))

SpecConcurrent == InitConcurrent /\ [][Next]_vars

\* direct calls of is_entry_up and get_known_labels
InitCalls ==
  InitWith({}, {[resources |-> << >>, status |-> << >>, version |-> V_full]})

NextCalls == CallIsEntryUp \/ CallGetKnownLabels

SpecCalls == InitCalls /\ [][NextCalls]_vars

(***************************************************************************)
(* The collectors as functions of the API results: a collector run from    *)
(* its first line to its last, and the five run one after the other.       *)
(***************************************************************************)
RECURSIVE StatusFold(_, _)
StatusFold(st, list) ==
  IF list = << >> THEN Ok(st)
  ELSE LET r == StatusEntry(st, Head(list))
       IN IF r.ok THEN StatusFold(r.val, Tail(list)) ELSE r

StatusStart == [ids |-> {}, family |-> GaugeMetricFamily("pve_up", KNOWN_LABEL_KEYS)]

StatusCollect(a) ==
  LET r == StatusFold(StatusStart, a.resources \o a.status)
  IN IF r.ok THEN Ok(<< r.val.family >>) ELSE r

RECURSIVE ResourcesFold(_, _)
ResourcesFold(fams, list) ==
  IF list = << >> THEN Ok(fams)
  ELSE LET r == ResourceEntry(fams, Head(list))
       IN IF r.ok THEN ResourcesFold(r.val, Tail(list)) ELSE r

ResourcesCollect(a) ==
  LET r == ResourcesFold(NewResourceFamilies, a.resources)
  IN IF r.ok THEN Ok(ResourceFamilies(r.val)) ELSE r

\* the five collectors in the order collect_pve registers them
CollectorRuns(a) ==
  << StatusCollect(a), ResourcesCollect(a), ClusterNodeCollect(a.status),
     ClusterInfoCollect(a.status), VersionCollect(a.version) >>

RECURSIVE RunInOrder(_, _)
RunInOrder(runs, acc) ==
  IF runs = << >> THEN Ok(acc)
  ELSE IF Head(runs).ok THEN RunInOrder(Tail(runs), acc \o Head(runs).val)
  ELSE Head(runs)

\* collect_pve with no other scrape running and no failing query
ScrapeAlone(a) == RunInOrder(CollectorRuns(a), << >>)

(***************************************************************************)
(* Claims                                                                  *)
(***************************************************************************)
Chained == api.resources \o api.status

Identity(entry) == get_known_labels(entry, None).val["id"]

\* the positions, among the first n, of the records that are the first of
\* their identity
FirstSeen(list, n) ==
  {k \in 1..n : \A j \in 1..(k - 1) : Identity(list[j]) # Identity(list[k])}

Rank(k, positions) == Cardinality({j \in positions : j <= k})

\* the row of a record under the default label names, by name
KnownRow(entry) ==
  [p \in 1..Len(KNOWN_LABEL_KEYS) |->
     downcast_label_value(get_known_labels(entry, None).val[KNOWN_LABEL_KEYS[p]])]

UpSample(entry) == [labels |-> KnownRow(entry), value |-> is_entry_up(entry).val]

AfterStatus == {"resources_begin", "resources_loop", "node", "info", "version"}
AfterResources == {"node", "info", "version"}

\* has call s a pve_up family, which one, and how many entries went into it
HasPveUp(s) == pc[s] \in {"status_loop", "done"} \cup AfterStatus
PveUp(s) ==
  IF pc[s] = "status_loop" THEN status_metrics[s]
  ELSE IF pc[s] = "done" THEN returned[s].val[1] ELSE output[s][1]
PveUpSeen(s) == IF pc[s] = "status_loop" THEN idx[s] - 1 ELSE Len(Chained)

\* C1: pve_up holds exactly one sample per distinct identity of the chained
\* stream (cluster-resources, then cluster-status), in the order of first
\* occurrence, and that sample carries the labels and the up/down value of
\* the first record of the identity; this holds after every entry of the
\* pass and of the family the scrape returns.
C1_FirstSeenWins ==
  \A s \in Calls :
    HasPveUp(s) =>
      LET first == FirstSeen(Chained, PveUpSeen(s))
          samples == PveUp(s).samples
      IN /\ Len(samples) = Cardinality(first)
         /\ \A k \in first : samples[Rank(k, first)] = UpSample(Chained[k])

\* a scrape has returned, and a cluster-status record repeated the identity
\* of a cluster-resources record with another row or another status
C1_Witness ==
  \E s \in Calls :
    /\ pc[s] = "done"
    /\ \E j \in 1..Len(api.resources), k \in (Len(api.resources) + 1)..Len(Chained) :
         /\ Identity(Chained[j]) = Identity(Chained[k])
         /\ UpSample(Chained[j]) # UpSample(Chained[k])

UnsupportedKind(entry) == Get(entry, "type") \notin SUPPORTED_UP_RES_TYPES

\* C10: in the pass of StatusCollector.collect the identity check comes
\* before the kind validation. An entry of an unsupported kind whose identity
\* is already in processed_ids is skipped: no error, the family and the set
\* unchanged, the pass at the next entry. An entry of an unsupported kind
\* whose identity is new fails the scrape.
C10_SeenIdentitySkipsValidation ==
  [][\A s \in Calls :
       (/\ pc[s] = "status_loop"
        /\ idx[s] <= Len(entries[s])
        /\ (pc'[s] # pc[s] \/ idx'[s] # idx[s])
        /\ UnsupportedKind(entries[s][idx[s]])
        /\ get_known_labels(entries[s][idx[s]], None).ok)
       => IF Identity(entries[s][idx[s]]) \in processed_ids[s]
          THEN /\ pc'[s] = "status_loop"
               /\ idx'[s] = idx[s] + 1
               /\ status_metrics'[s] = status_metrics[s]
               /\ processed_ids'[s] = processed_ids[s]
               /\ returned'[s] = NoReturn
          ELSE /\ pc'[s] = "failed"
               /\ ~returned'[s].ok]_vars

\* the pass has gone past an entry of an unsupported kind
C10_Witness ==
  \E s \in Calls :
    /\ pc[s] = "status_loop"
    /\ idx[s] > 1
    /\ UnsupportedKind(entries[s][idx[s] - 1])

HasResourceFamilies(s) == pc[s] \in {"resources_loop", "done"} \cup AfterResources
ResourceFams(s) ==
  IF pc[s] = "resources_loop" THEN ResourceFamilies(resource_metrics[s])
  ELSE SubSeq(IF pc[s] = "done" THEN returned[s].val ELSE output[s],
              2, 1 + Len(MetricKeys) + Len(InfoKeys))
ResourcesSeen(s) == IF pc[s] = "resources_loop" THEN idx[s] - 1 ELSE Len(api.resources)

\* C7: the family of each of the eleven routed fields holds exactly one
\* sample per cluster-resources record that carries the field, in record
\* order, with the record's row and the field's value; a record that lacks
\* the field adds nothing to that family, and records are not deduplicated.
\* This holds after every record of the pass and of the families returned.
C7_SparseRouting ==
  \A s \in Calls :
    HasResourceFamilies(s) =>
      \A p \in 1..Len(MetricKeys) :
        LET key == MetricKeys[p]
            carriers == {k \in 1..ResourcesSeen(s) : key \in DOMAIN api.resources[k]}
            family == ResourceFams(s)[p]
        IN /\ family.name = MetricName(key)
           /\ Len(family.samples) = Cardinality(carriers)
           /\ \A k \in carriers :
                family.samples[Rank(k, carriers)] =
                  [labels |-> KnownRow(api.resources[k]), value |-> api.resources[k][key]]

\* a scrape has returned whose cluster-resources list holds a record without
\* netin that carries maxmem, and another record of the same identity with
\* netin
C7_Witness ==
  \E s \in Calls :
    /\ pc[s] = "done"
    /\ \E j, k \in 1..Len(api.resources) :
         /\ "netin" \notin DOMAIN api.resources[j]
         /\ "maxmem" \in DOMAIN api.resources[j]
         /\ "netin" \in DOMAIN api.resources[k]
         /\ Identity(api.resources[j]) = Identity(api.resources[k])

\* every record of the cluster-status result has a type
Typed(list) == \A p \in 1..Len(list) : "type" \in DOMAIN list[p]

OfKind(list, kind) == SelectSeq(list, LAMBDA entry : Get(entry, "type") = S(kind))

LabelingNames ==
  {"pve_up"} \cup {MetricName(key) : key \in SeqToSet(MetricKeys)}
             \cup {InfoName(key) : key \in SeqToSet(InfoKeys)}

\* the records a sample of the family can come from
Sources(name) ==
  CASE name = "pve_up" -> {r \in SeqToSet(Chained) : get_known_labels(r, None).ok}
    [] name \in LabelingNames \ {"pve_up"} ->
         {r \in SeqToSet(api.resources) : get_known_labels(r, None).ok}
    [] name = "pve_node_info" -> SeqToSet(OfKind(api.status, "node"))
    [] name = "pve_cluster_info" ->
         {r \in SeqToSet(OfKind(api.status, "cluster")) : IsStr(Get(r, "name"))}
    [] name = "pve_version_info" -> {api.version}

\* the row of record r in the family: for each declared label name, in the
\* declared order, the record's value of that label
RowOf(name, r, labelnames) ==
  CASE name \in LabelingNames ->
         LET labels == get_known_labels(r, None).val
         IN [p \in 1..Len(labelnames) |-> downcast_label_value(Get(labels, labelnames[p]))]
    [] name = "pve_node_info" ->
         [p \in 1..Len(labelnames) |->
            IF labelnames[p] \in DOMAIN r \ {"type", "online"}
            THEN py_str(r[labelnames[p]]) ELSE Absent]
    [] name = "pve_cluster_info" ->
         [p \in 1..Len(labelnames) |->
            IF labelnames[p] = "id" THEN S("cluster/" \o r["name"].str)
            ELSE IF labelnames[p] \in DOMAIN r \ {"type", "name"}
                 THEN py_str(r[labelnames[p]]) ELSE Absent]
    [] name = "pve_version_info" ->
         [p \in 1..Len(labelnames) |->
            IF labelnames[p] \in DOMAIN r THEN r[labelnames[p]] ELSE Absent]

\* every family call s holds: under construction, collected, returned
FamiliesOf(s) ==
  (IF pc[s] = "status_loop" THEN {status_metrics[s]} ELSE {})
    \cup (IF pc[s] = "resources_loop"
          THEN SeqToSet(ResourceFamilies(resource_metrics[s])) ELSE {})
    \cup SeqToSet(output[s])
    \cup (IF pc[s] = "done" THEN SeqToSet(returned[s].val) ELSE {})

\* C8: at every point of a scrape, every sample of every family has as many
\* label values as the family has label names, and is the row of one record
\* of the family's source: the value at each position is that record's value
\* of the label name declared at that position.
C8_LabelColumnsAligned ==
  \A s \in Calls :
    \A family \in FamiliesOf(s) :
      \A n \in 1..Len(family.samples) :
        /\ Len(family.samples[n].labels) = Len(family.labelnames)
        /\ \E r \in Sources(family.name) :
             family.samples[n].labels = RowOf(family.name, r, family.labelnames)

HasSamples(families, name) ==
  \E p \in 1..Len(families) : families[p].name = name /\ families[p].samples # << >>

\* a scrape has returned samples in pve_up, in a numeric family, in
\* pve_guest_info, in both schema families and in pve_version_info
C8_Witness ==
  \E s \in Calls :
    /\ pc[s] = "done"
    /\ \A name \in {"pve_up", "pve_memory_size_bytes", "pve_guest_info",
                     "pve_node_info", "pve_cluster_info", "pve_version_info"} :
         HasSamples(returned[s].val, name)

SameFields(list) == \A i, j \in 1..Len(list) : DOMAIN list[i] = DOMAIN list[j]

Collected(s) == IF pc[s] = "done" THEN returned[s].val ELSE output[s]

Named(families, name) == {p \in 1..Len(families) : families[p].name = name}

\* the family `name` of `families` is the one info family of `records`, with
\* the label names `labels`
IsSchemaFamily(families, name, records, labels) ==
  /\ Cardinality(Named(families, name)) = 1
  /\ LET family == families[CHOOSE p \in Named(families, name) : TRUE]
     IN /\ SeqToSet(family.labelnames) = labels
        /\ Len(family.labelnames) = Cardinality(labels)
        /\ Len(family.samples) = Len(records)
        /\ \A n \in 1..Len(family.samples) : family.samples[n].value = N(1)

\* C9: once ClusterNodeCollector has run, there is no pve_node_info family
\* when cluster-status has no node record; when it has node records of one
\* field set, there is one pve_node_info family, its label names the fields
\* of the first node record without type and online, with one sample of
\* value 1 per node record. The same holds of ClusterInfoCollector,
\* pve_cluster_info and the cluster records, the label names being the fields
\* of the first cluster record without type, with id in place of name. Node
\* records of one field set that have `online`, and cluster records of one
\* field set that have a str `name`, never make the collector raise.
C9_SchemaFromFirstRecord ==
  LET nodes == OfKind(api.status, "node")
      clusters == OfKind(api.status, "cluster")
  IN /\ \A s \in Calls :
          pc[s] \in {"info", "version", "done"} =>
            IF nodes = << >> THEN Named(Collected(s), "pve_node_info") = {}
            ELSE SameFields(nodes) =>
                   /\ IsSchemaFamily(Collected(s), "pve_node_info", nodes,
                                     DOMAIN nodes[1] \ {"type", "online"})
                   /\ \A p \in Named(Collected(s), "pve_node_info") :
                        {"type", "online"} \cap SeqToSet(Collected(s)[p].labelnames) = {}
     /\ \A s \in Calls :
          pc[s] \in {"version", "done"} =>
            IF clusters = << >> THEN Named(Collected(s), "pve_cluster_info") = {}
            ELSE SameFields(clusters) =>
                   /\ IsSchemaFamily(Collected(s), "pve_cluster_info", clusters,
                                     (DOMAIN clusters[1] \ {"type", "name"}) \cup {"id"})
                   /\ \A p \in Named(Collected(s), "pve_cluster_info") :
                        "type" \notin SeqToSet(Collected(s)[p].labelnames)
     /\ (Typed(api.status) /\ nodes # << >> /\ SameFields(nodes)
           /\ "online" \in DOMAIN nodes[1])
          => ClusterNodeCollect(api.status).ok
     /\ (Typed(api.status) /\ clusters # << >> /\ SameFields(clusters)
           /\ IsStr(Get(clusters[1], "name")))
          => ClusterInfoCollect(api.status).ok

\* a scrape has returned with two node records of one field set and a
\* cluster record in cluster-status
C9_Witness ==
  \E s \in Calls :
    /\ pc[s] = "done"
    /\ Len(OfKind(api.status, "node")) = 2
    /\ SameFields(OfKind(api.status, "node"))
    /\ Len(OfKind(api.status, "cluster")) = 1

AllOk(runs) == \A p \in 1..Len(runs) : runs[p].ok

\* C3: what the caller of collect_pve receives is either the families of the
\* five collectors, in the order Status, ClusterResources, ClusterNode,
\* ClusterInfo, Version, every one of them having run to its end, or an
\* exception and nothing else: no family, no sample. A scrape in which a
\* collector raises never returns families.
C3_AllOrNothing ==
  \A s \in Calls :
    LET runs == CollectorRuns(api)
    IN CASE pc[s] = "done" ->
              /\ AllOk(runs)
              /\ returned[s] =
                   Ok(runs[1].val \o runs[2].val \o runs[3].val \o runs[4].val \o runs[5].val)
         [] pc[s] = "failed" ->
              /\ DOMAIN returned[s] = {"ok", "exc"}
              /\ ~returned[s].ok
              /\ output[s] = << >>
         [] OTHER -> returned[s] = NoReturn

\* a scrape has failed in its last collector, after the four before it had
\* produced their families
C3_Witness ==
  \E s \in Calls :
    /\ pc[s] = "failed"
    /\ returned[s].exc # "ApiError"
    /\ \A p \in 1..4 : CollectorRuns(api)[p].ok
    /\ CollectorRuns(api)[1].val[1].samples # << >>

\* C4: a scrape whose steps interleave with those of another scrape of the
\* same cluster behaves as if it ran alone. In its StatusCollector pass, its
\* processed-identity set and its pve_up family are those of the entries it
\* has itself gone through; what it returns is what collect_pve returns
\* running alone on the same API results, and when it fails other than by a
\* failing query it fails with the exception the scrape alone raises.
C4_ScrapesIndependent ==
  \A s \in Calls :
    /\ pc[s] = "status_loop" =>
         LET alone == StatusFold(StatusStart, SubSeq(Chained, 1, idx[s] - 1))
         IN /\ alone.ok
            /\ processed_ids[s] = alone.val.ids
            /\ status_metrics[s] = alone.val.family
    /\ pc[s] = "done" => returned[s] = ScrapeAlone(api)
    /\ (pc[s] = "failed" /\ returned[s].exc # "ApiError") => returned[s] = ScrapeAlone(api)

\* both scrapes are in the middle of their StatusCollector pass, each with
\* identities recorded
C4_Witness ==
  /\ Cardinality(Calls) = 2
  /\ \A s \in Calls :
       /\ pc[s] = "status_loop"
       /\ idx[s] > 1
       /\ idx[s] <= Len(entries[s])
       /\ processed_ids[s] # {}

\* the error of is_entry_up for a kind it does not support
UnsupportedKindErrors ==
  { "ValueError: Got unexpected status entry type " \o kind :
      kind \in {"pool", "None", ""} }

\* C2: no scrape fails because a field other than `type` is missing from a
\* record: when every record of cluster-resources and cluster-status has a
\* type, a scrape fails only by a failing query or by a record of an
\* unsupported kind.
C2_MissingFieldNeverFails ==
  (Typed(api.resources) /\ Typed(api.status)) =>
    \A s \in Calls :
      pc[s] = "failed" => returned[s].exc \in {"ApiError"} \cup UnsupportedKindErrors

\* C5: is_entry_up raises the unsupported-kind error for every record whose
\* type is not a supported one, a record without type included; for every
\* other record it returns, and returns a true value exactly when quorate is
\* truthy, or online is truthy, or status is available, online or running.
C5_IsEntryUpTable ==
  call.op = "is_entry_up" =>
    IF UnsupportedKind(call.entry)
    THEN ~call.ret.ok /\ call.ret.exc \in UnsupportedKindErrors
    ELSE /\ call.ret.ok
         /\ Truthy(call.ret.val) <=>
              \/ Truthy(Get(call.entry, "quorate"))
              \/ Truthy(Get(call.entry, "online"))
              \/ Get(call.entry, "status") \in UpStatuses

\* C6: get_known_labels applies the overrides whatever label names are
\* requested: with name requested, a storage record's name is its storage
\* field and a node record's name is its node field; with id requested, a
\* cluster record's id is "cluster/" followed by its name; every other
\* requested label is the record's field of that name, or None.
C6_OverridesForAnyKeys ==
  call.op = "get_known_labels" =>
    LET resource == call.resource
        keys == IF IsNone(call.label_keys) THEN KNOWN_LABEL_KEYS ELSE call.label_keys.list
        kind == Get(resource, "type")
        Expected(key) ==
          CASE key = "name" /\ kind = S("storage") -> Get(resource, "storage")
            [] key = "name" /\ kind = S("node") -> Get(resource, "node")
            [] key = "id" /\ kind = S("cluster") /\ IsStr(Get(resource, "name")) ->
                 S("cluster/" \o resource["name"].str)
            [] OTHER -> Get(resource, key)
    IN ("id" \in SeqToSet(keys) /\ kind = S("cluster") => IsStr(Get(resource, "name")))
         => /\ call.ret.ok
            /\ DOMAIN call.ret.val = SeqToSet(keys)
            /\ \A key \in SeqToSet(keys) : call.ret.val[key] = Expected(key)

====
